---- MODULE Spec2Model ----
(***************************************************************************)
(* Topic patterns of the bus library: src/lib/PatternHelpers.ts (tokenizer *)
(* and compiler), src/lib/Pattern.ts (the Pattern class), and the two      *)
(* versions of src/Bus.ts, the older Bus (an EventEmitter with separate    *)
(* subscription and publication labels) and the newer Bus (one map of      *)
(* patterns), each over an MQTT client that is their environment.          *)
(*                                                                         *)
(* A JavaScript string is a sequence of one-character strings, so that     *)
(* split, slice, join, escaping and regular-expression matching are        *)
(* computed character by character, as the code computes them.             *)
(***************************************************************************)
EXTENDS Naturals, Sequences, FiniteSets

VARIABLES src, pc, error, _pattern, _topic, _regex, _fnParams, _paramCount,
          op, built, topic, result, params, extracted,
          version, _status, _client, _patterns, _subscriptionLabels,
          _publicationLabels, _subscriptionTopics, requests, call, packet, emitted

\* A Pattern and what its caller holds.
patternVars == <<src, pc, error, _pattern, _topic, _regex, _fnParams, _paramCount,
                 op, built, topic, result, params, extracted>>

\* A Bus of the older or of the newer version, the requests its client has in
\* flight, and what the last call or the last message came to.
busVars == <<version, _status, _client, _patterns, _subscriptionLabels,
             _publicationLabels, _subscriptionTopics, requests, call, packet,
             emitted>>

vars == <<patternVars, busVars>>

\* ------------------------------------------------------------------ bounds
\* The requests the client has in flight when another is handed to it, and
\* the topics subscribed to.
MaxInFlight == 1
MaxSubscriptions == 2
\* The requests in flight once an unsubscribe has been handed to the client:
\* an unsubscribe may follow a request that is still in flight, another
\* unsubscribe of the same label included.
MaxUnsubscribing == 2


\* Longest pattern string handed to Pattern.from.
MaxPatternLen == 5
\* Longest topic string handed to match.
MaxTopicLen == 3
\* Longest string handed to buildParameterizedTopic as a parameter value.
MaxValueLen == 1
\* Longest array handed to buildParameterizedTopic as a parameter value.
MaxArrayLen == 2

\* The characters pattern and topic strings are made of: a plain letter, the
\* two wildcard sigils and the separator. Past the first character of a segment
\* '+' is the raw text that is a regular-expression metacharacter.
Alphabet == {"a", "+", "#", "/"}

\* ----------------------------------------------------------- JS values

\* undefined has the shape of a string and null the shape of an array of
\* strings, so that either compares with the values it stands in for; neither
\* is one, since no character is called "undefined" or "null".
undefined == << "undefined" >>
null == << << "null" >> >>

\* A completion: a returned value, or a thrown Error with its message.
Normal(v) == [throw |-> FALSE, value |-> v]
Throw(msg) == [throw |-> TRUE, value |-> msg]

RECURSIVE StringsUpTo(_, _)
\* All strings over the characters cs of length at most n.
StringsUpTo(cs, n) ==
  IF n = 0 THEN {<< >>}
  ELSE LET shorter == StringsUpTo(cs, n - 1)
       IN  shorter \cup {Append(s, c) : s \in shorter, c \in cs}

\* String.prototype.slice(1), Array.prototype.slice(1).
slice1(s) == SubSeq(s, 2, Len(s))

\* String.prototype.slice(0, -1).
sliceButLast(s) == SubSeq(s, 1, Len(s) - 1)

RECURSIVE split(_)
\* String.prototype.split('/'): always at least one element.
split(s) ==
  IF \A i \in 1..Len(s) : s[i] # "/" THEN << s >>
  ELSE LET i == CHOOSE k \in 1..Len(s) :
                  s[k] = "/" /\ \A j \in 1..(k - 1) : s[j] # "/"
       IN  << SubSeq(s, 1, i - 1) >> \o split(SubSeq(s, i + 1, Len(s)))

RECURSIVE join(_, _)
\* Array.prototype.join(sep) on an array of strings.
join(items, sep) ==
  IF Len(items) = 0 THEN << >>
  ELSE IF Len(items) = 1 THEN items[1]
  ELSE items[1] \o sep \o join(Tail(items), sep)

\* ------------------------------------------------------ PatternHelpers.ts

\* The characters matchOperatorsRe matches: | \ { } ( ) [ ] ^ $ + * ? .
matchOperatorsRe ==
  {"|", "\\", "{", "}", "(", ")", "[", "]", "^", "$", "+", "*", "?", "."}

RECURSIVE replaceEscaping(_, _)
\* str.replace(re, '\\$&') for a global character-class re: each matched
\* character is replaced by a backslash followed by itself.
replaceEscaping(str, re) ==
  IF Len(str) = 0 THEN << >>
  ELSE (IF Head(str) \in re THEN << "\\", Head(str) >> ELSE << Head(str) >>)
       \o replaceEscaping(Tail(str), re)

\* Mutant: the plus sign is left out of the escaped characters.
escapeStringRegexp_NoPlus(str) == replaceEscaping(str, matchOperatorsRe \ {"+"})

escapeStringRegexp(str) == replaceEscaping(str, matchOperatorsRe)

SINGLE == "SINGLE"
MULTI == "MULTI"
RAW == "RAW"

\* Mutant: the character class lets the separator through.
processSingle_AcrossSegments(token) ==
  Normal(
  [type  |-> SINGLE,
   name  |-> slice1(token),
   piece |-> << "(", "[", "^", "#", "+", "]", "+", "/", ")" >>,
   last  |-> << "(", "[", "^", "#", "+", "]", "+", "/", "?", ")" >>])

processSingle(token) ==
  Normal(
  [type  |-> SINGLE,
   name  |-> slice1(token),
   piece |-> << "(", "[", "^", "/", "#", "+", "]", "+", "/", ")" >>,
   last  |-> << "(", "[", "^", "/", "#", "+", "]", "+", "/", "?", ")" >>])

MultiError == "# wildcard must be at the end of the pattern"

\* Mutant: the position check is dropped.
processMulti_NoCheck(token, last) ==
  Normal(
  [type  |-> MULTI,
   name  |-> slice1(token),
   piece |-> << "(", "(", "?", ":", "[", "^", "/", "#", "+", "]", "+", "/", ")", "*", ")" >>,
   last  |-> << "(", "(", "?", ":", "[", "^", "/", "#", "+", "]", "+", "/", "?", ")", "*", ")" >>])

processMulti(token, last) ==
  IF ~last THEN Throw(MultiError)
  ELSE Normal(
       [type  |-> MULTI,
        name  |-> slice1(token),
        piece |-> << "(", "(", "?", ":", "[", "^", "/", "#", "+", "]", "+", "/", ")", "*", ")" >>,
        last  |-> << "(", "(", "?", ":", "[", "^", "/", "#", "+", "]", "+", "/", "?", ")", "*", ")" >>])

\* A raw token has no name property: reading it gives undefined.
processRaw(token) ==
  LET escaped == escapeStringRegexp(token)
  IN  Normal(
      [type  |-> RAW,
       name  |-> undefined,
       piece |-> escaped \o << "/" >>,
       last  |-> escaped \o << "/", "?" >>])

\* token[0] of the empty string is undefined, which equals neither sigil.
processToken(token, index, tokens) ==
  LET last == (index = Len(tokens))
  IN  IF Len(token) > 0 /\ token[1] = "+" THEN processSingle(token)
      ELSE IF Len(token) > 0 /\ token[1] = "#" THEN processMulti(token, last)
      ELSE processRaw(token)

\* pattern.split('/').map(processToken): the first throwing element ends the
\* map, and the exception leaves tokenize.
tokenize(pattern) ==
  LET segs == split(pattern)
      toks == [i \in 1..Len(segs) |-> processToken(segs[i], i, segs)]
  IN  IF \E i \in 1..Len(segs) : toks[i].throw
      THEN toks[CHOOSE i \in 1..Len(segs) :
                  toks[i].throw /\ \A j \in 1..(i - 1) : ~toks[j].throw]
      ELSE Normal([i \in 1..Len(segs) |-> toks[i].value])

\* items[items.length - 1], for a non-empty string or array.
getLastItem(items) == items[Len(items)]

\* Mutant: the last item stays.
removeLastItem_Keep(items) == items

removeLastItem(items) == SubSeq(items, 1, Len(items) - 1)

\* Mutant: the raw tokens stay, so captures and tokens fall out of step.
removeRawTokens_Keep(tokens) == tokens

RECURSIVE removeRawTokens(_)
removeRawTokens(tokens) ==
  IF Len(tokens) = 0 THEN << >>
  ELSE (IF Head(tokens).type # RAW THEN << Head(tokens) >> ELSE << >>)
       \o removeRawTokens(Tail(tokens))

\* The string between the anchors: every token's piece, but the last form for
\* the final token and for the token right before a final multi wildcard.
regexStr(tokens) ==
  LET frag(index) ==
        LET isLast == (index = Len(tokens))
            beforeMulti == (index = Len(tokens) - 1)
                           /\ getLastItem(tokens).type = MULTI
        IN  IF isLast \/ beforeMulti THEN tokens[index].last
            ELSE tokens[index].piece
      RECURSIVE reduce(_)
      reduce(index) ==
        IF index = 0 THEN << >> ELSE reduce(index - 1) \o frag(index)
  IN  reduce(Len(tokens))

\* Mutant: the anchors are left out.
regexSource_Unanchored(tokens) == regexStr(tokens)

\* The source text of the regular expression: `^${regexStr}$`.
regexSource(tokens) == << "^" >> \o regexStr(tokens) \o << "$" >>

\* Mutant: a wildcard keeps its name.
buildTopic_KeepNames(tokens) ==
  LET render(token) ==
        CASE token.type = RAW    -> sliceButLast(token.piece)
          [] token.type = SINGLE -> << "+" >> \o token.name
          [] token.type = MULTI  -> << "#" >> \o token.name
  IN  join([i \in 1..Len(tokens) |-> render(tokens[i])], << "/" >>)

buildTopic(tokens) ==
  LET render(token) ==
        CASE token.type = RAW    -> sliceButLast(token.piece)
          [] token.type = SINGLE -> << "+" >>
          [] token.type = MULTI  -> << "#" >>
  IN  join([i \in 1..Len(tokens) |-> render(tokens[i])], << "/" >>)

\* The truthiness of a token's name: undefined and '' are falsy.
Truthy(name) == name # undefined /\ Len(name) > 0

\* Mutant: every wildcard counts, named or not.
buildParameterCount_Unnamed(tokens) ==
  Cardinality({i \in 1..Len(tokens) : tokens[i].type # RAW})

buildParameterCount(tokens) ==
  Cardinality({i \in 1..Len(tokens) :
                 tokens[i].type # RAW /\ Truthy(tokens[i].name)
                 /\ Len(tokens[i].name) > 0})

\* --------------------------------------------- RegExp (the JS built-in)
\* new RegExp(source) and RegExp.prototype.exec for a pattern without flags,
\* for the syntax the compiled patterns use: characters, identity escapes,
\* '.', the anchors, character classes of plain characters, capturing and
\* non-capturing groups, alternation and the quantifiers * + ? (greedy, or
\* lazy with a following '?'). Braces are literal characters, as they are in
\* a pattern without digits. A parse is [ok, alts | terms | atom, next, n]:
\* what was read, the index after it, and the capturing groups opened so far.

ParseFail == [ok |-> FALSE]

\* s[k], or '' past the end of s.
CharAt(s, k) == IF k <= Len(s) THEN s[k] ELSE ""

\* The index of the first ']' at or after position i, or 0.
ClassEnd(s, i) ==
  IF \E k \in i..Len(s) : s[k] = "]"
  THEN CHOOSE k \in i..Len(s) : s[k] = "]" /\ \A j \in i..(k - 1) : s[j] # "]"
  ELSE 0

\* A character class that opens at position i: [...] or [^...].
ParseClass(s, i, n) ==
  LET neg == CharAt(s, i + 1) = "^"
      from == IF neg THEN i + 2 ELSE i + 1
  IN  IF ClassEnd(s, from) = 0 THEN ParseFail
      ELSE [ok |-> TRUE,
            atom |-> [t |-> "cls", neg |-> neg,
                      set |-> {s[k] : k \in from..(ClassEnd(s, from) - 1)}],
            next |-> ClassEnd(s, from) + 1, n |-> n]

\* The group that opens at position i, once its inside is parsed: (...) is
\* capturing and numbered by its opening parenthesis, (?:...) is not.
ParseGroup(s, i, n, inner) ==
  IF CharAt(s, i + 1) = "?" /\ CharAt(s, i + 2) # ":" THEN ParseFail
  ELSE IF ~inner.ok THEN ParseFail
  ELSE IF CharAt(s, inner.next) # ")" THEN ParseFail
  ELSE [ok |-> TRUE,
        atom |-> [t |-> "grp",
                  cap |-> IF CharAt(s, i + 1) = "?" THEN 0 ELSE n + 1,
                  alts |-> inner.alts],
        next |-> inner.next + 1, n |-> inner.n]

\* The atom a with the quantifier that follows it, and the terms after them.
ParseTerm(s, a, rest) ==
  LET quantified == CharAt(s, a.next) \in {"*", "+", "?"}
      lazy == quantified /\ CharAt(s, a.next + 1) = "?"
  IN  IF quantified /\ a.atom.t \in {"bol", "eol"} THEN ParseFail
      ELSE IF ~rest.ok THEN ParseFail
      ELSE [ok |-> TRUE,
            terms |-> << [atom |-> a.atom,
                          q |-> IF quantified THEN CharAt(s, a.next) ELSE "1",
                          lazy |-> lazy] >> \o rest.terms,
            next |-> rest.next, n |-> rest.n]

\* The index after the atom a and its quantifier.
AfterTerm(s, a) ==
  IF CharAt(s, a.next) \in {"*", "+", "?"}
  THEN IF CharAt(s, a.next + 1) = "?" THEN a.next + 2 ELSE a.next + 1
  ELSE a.next

\* The alternative first followed by the alternatives more.
ParseAlternatives(first, more) ==
  IF ~more.ok THEN ParseFail
  ELSE [ok |-> TRUE, alts |-> << first.terms >> \o more.alts,
        next |-> more.next, n |-> more.n]

RECURSIVE ParseDisjunction(_, _, _)
RECURSIVE ParseDisjunctionRest(_, _)
RECURSIVE ParseAlternative(_, _, _)
RECURSIVE ParseAlternativeRest(_, _)
RECURSIVE ParseAtom(_, _, _)

ParseAtom(s, i, n) ==
  CASE s[i] = "^" -> [ok |-> TRUE, atom |-> [t |-> "bol"], next |-> i + 1, n |-> n]
    [] s[i] = "$" -> [ok |-> TRUE, atom |-> [t |-> "eol"], next |-> i + 1, n |-> n]
    [] s[i] = "." -> [ok |-> TRUE, atom |-> [t |-> "any"], next |-> i + 1, n |-> n]
    [] s[i] = "\\" ->
         IF i = Len(s) THEN ParseFail
         ELSE [ok |-> TRUE, atom |-> [t |-> "chr", c |-> s[i + 1]],
               next |-> i + 2, n |-> n]
    [] s[i] = "(" ->
         ParseGroup(s, i, n,
                    ParseDisjunction(s,
                                     IF CharAt(s, i + 1) = "?" THEN i + 3 ELSE i + 1,
                                     IF CharAt(s, i + 1) = "?" THEN n ELSE n + 1))
    [] s[i] = "[" -> ParseClass(s, i, n)
    [] s[i] \in {"*", "+", "?"} -> ParseFail
    [] OTHER -> [ok |-> TRUE, atom |-> [t |-> "chr", c |-> s[i]],
                 next |-> i + 1, n |-> n]

ParseAlternativeRest(s, a) ==
  IF ~a.ok THEN ParseFail
  ELSE ParseTerm(s, a, ParseAlternative(s, AfterTerm(s, a), a.n))

ParseAlternative(s, i, n) ==
  IF i > Len(s) \/ s[i] \in {"|", ")"}
  THEN [ok |-> TRUE, terms |-> << >>, next |-> i, n |-> n]
  ELSE ParseAlternativeRest(s, ParseAtom(s, i, n))

ParseDisjunctionRest(s, first) ==
  IF ~first.ok THEN ParseFail
  ELSE IF CharAt(s, first.next) = "|"
  THEN ParseAlternatives(first, ParseDisjunction(s, first.next + 1, first.n))
  ELSE [ok |-> TRUE, alts |-> << first.terms >>,
        next |-> first.next, n |-> first.n]

ParseDisjunction(s, i, n) == ParseDisjunctionRest(s, ParseAlternative(s, i, n))

\* The parse r of the whole source, as a RegExp or a SyntaxError.
\* The RegExp object of a parsed source: no flag is given, and lastIndex is 0.
Compiled(source, r) ==
  IF r.ok /\ r.next = Len(source) + 1
  THEN Normal([source |-> source, alts |-> r.alts, groups |-> r.n,
               global |-> FALSE, lastIndex |-> 0])
  ELSE Throw("Invalid regular expression")

\* Mutant: the expression is compiled with the g flag.
RegExp_Global(source) ==
  LET c == Compiled(source, ParseDisjunction(source, 1, 0))
  IN  IF c.throw THEN c ELSE Normal([c.value EXCEPT !.global = TRUE])

\* new RegExp(source): the compiled expression, or a thrown SyntaxError.
RegExp(source) == Compiled(source, ParseDisjunction(source, 1, 0))

\* Matching is backtracking: each operator gives the ways to match from a
\* state [pos, caps], in the order the engine tries them; the first way that
\* reaches the end of the expression is the match.
RECURSIVE MatchAlts(_, _, _, _)
RECURSIVE MatchTerms(_, _, _, _)
RECURSIVE ThenTerms(_, _, _, _, _)
RECURSIVE MatchTerm(_, _, _)
RECURSIVE MatchAtom(_, _, _)
RECURSIVE Star(_, _, _)
RECURSIVE StarEach(_, _, _, _)

MatchAtom(atom, inp, st) ==
  LET here == st.pos <= Len(inp)
      advance == << [st EXCEPT !.pos = st.pos + 1] >>
  IN  CASE atom.t = "chr" ->
             IF here /\ inp[st.pos] = atom.c THEN advance ELSE << >>
        [] atom.t = "any" -> IF here THEN advance ELSE << >>
        [] atom.t = "cls" ->
             IF here /\ ((inp[st.pos] \in atom.set) # atom.neg)
             THEN advance ELSE << >>
        [] atom.t = "bol" -> IF st.pos = 1 THEN << st >> ELSE << >>
        [] atom.t = "eol" -> IF st.pos = Len(inp) + 1 THEN << st >> ELSE << >>
        [] atom.t = "grp" ->
             LET outs == MatchAlts(atom.alts, 1, inp, st)
             IN  IF atom.cap = 0 THEN outs
                 ELSE [j \in 1..Len(outs) |->
                         [outs[j] EXCEPT !.caps[atom.cap] =
                            SubSeq(inp, st.pos, outs[j].pos - 1)]]

\* Zero or more repetitions; a repetition that consumes nothing ends the loop.
Star(term, inp, st) ==
  LET isProgress(o) == o.pos > st.pos
      more == StarEach(SelectSeq(MatchAtom(term.atom, inp, st), isProgress),
                       1, term, inp)
  IN  IF term.lazy THEN << st >> \o more ELSE more \o << st >>

StarEach(outs, j, term, inp) ==
  IF j > Len(outs) THEN << >>
  ELSE Star(term, inp, outs[j]) \o StarEach(outs, j + 1, term, inp)

MatchTerm(term, inp, st) ==
  LET once == MatchAtom(term.atom, inp, st)
  IN  CASE term.q = "1" -> once
        [] term.q = "?" -> IF term.lazy THEN << st >> \o once ELSE once \o << st >>
        [] term.q = "*" -> Star(term, inp, st)
        [] term.q = "+" -> StarEach(once, 1, term, inp)

ThenTerms(outs, j, terms, k, inp) ==
  IF j > Len(outs) THEN << >>
  ELSE MatchTerms(terms, k, inp, outs[j]) \o ThenTerms(outs, j + 1, terms, k, inp)

MatchTerms(terms, k, inp, st) ==
  IF k > Len(terms) THEN << st >>
  ELSE ThenTerms(MatchTerm(terms[k], inp, st), 1, terms, k + 1, inp)

MatchAlts(alts, a, inp, st) ==
  IF a > Len(alts) THEN << >>
  ELSE MatchTerms(alts[a], 1, inp, st) \o MatchAlts(alts, a + 1, inp, st)

RECURSIVE execFrom(_, _, _)
execFrom(regex, str, start) ==
  LET outs == MatchAlts(regex.alts, 1, str,
                        [pos |-> start, caps |-> [k \in 1..regex.groups |-> undefined]])
  IN  IF Len(outs) > 0
      THEN << SubSeq(str, start, outs[1].pos - 1) >> \o outs[1].caps
      ELSE IF start > Len(str) THEN null
      ELSE execFrom(regex, str, start + 1)

RECURSIVE indexFrom(_, _, _)
\* The position (from 1) of the match execFrom finds, 0 when it finds none.
indexFrom(regex, str, start) ==
  LET outs == MatchAlts(regex.alts, 1, str,
                        [pos |-> start, caps |-> [k \in 1..regex.groups |-> undefined]])
  IN  IF Len(outs) > 0 THEN start
      ELSE IF start > Len(str) THEN 0
      ELSE indexFrom(regex, str, start + 1)

\* Where exec starts: at lastIndex when the expression is global, else at 0.
execStart(regex) == IF regex.global THEN regex.lastIndex + 1 ELSE 1

\* regex.exec(str): null, or the array of the match and its captures.
exec(regex, str) ==
  IF execStart(regex) > Len(str) + 1 THEN null
  ELSE execFrom(regex, str, execStart(regex))

\* The expression after regex.exec(str): a global expression keeps the end of
\* the match in lastIndex, or 0 after a failure; any other is left as it is.
afterExec(regex, str) ==
  IF ~regex.global THEN regex
  ELSE IF exec(regex, str) = null THEN [regex EXCEPT !.lastIndex = 0]
  ELSE [regex EXCEPT !.lastIndex =
          indexFrom(regex, str, execStart(regex)) - 1 + Len(exec(regex, str)[1])]

\* Builds the regular expression for the pattern.
buildRegularExpression(tokens) == RegExp(regexSource(tokens))

\* A JS object is a function from its keys to its values. A parameter value is
\* tagged with its type, so that '' and [] differ; v holds the elements of an
\* array, and the string itself as the one element of v.
EmptyObject == << >>
String(s) == [t |-> "string", v |-> << s >>]
Array(xs) == [t |-> "array", v |-> xs]

\* An object with the own property key: value, as an object literal with a
\* computed key or JSON.parse makes it.
Own(obj, key, value) ==
  [k \in (DOMAIN obj) \cup {key} |-> IF k = key THEN value ELSE obj[k]]

\* The key that `{}` inherits as an accessor from Object.prototype.
ProtoName == << "_", "_", "p", "r", "o", "t", "o", "_", "_" >>

\* The keys that `{}` inherits as methods from Object.prototype.
ObjectPrototypeMethods ==
  {<< "c", "o", "n", "s", "t", "r", "u", "c", "t", "o", "r" >>,
   << "t", "o", "S", "t", "r", "i", "n", "g" >>,
   << "v", "a", "l", "u", "e", "O", "f" >>,
   << "h", "a", "s", "O", "w", "n", "P", "r", "o", "p", "e", "r", "t", "y" >>,
   << "i", "s", "P", "r", "o", "t", "o", "t", "y", "p", "e", "O", "f" >>,
   << "p", "r", "o", "p", "e", "r", "t", "y", "I", "s", "E", "n", "u", "m",
      "e", "r", "a", "b", "l", "e" >>,
   << "t", "o", "L", "o", "c", "a", "l", "e", "S", "t", "r", "i", "n", "g" >>,
   << "_", "_", "d", "e", "f", "i", "n", "e", "G", "e", "t", "t", "e", "r",
      "_", "_" >>,
   << "_", "_", "d", "e", "f", "i", "n", "e", "S", "e", "t", "t", "e", "r",
      "_", "_" >>,
   << "_", "_", "l", "o", "o", "k", "u", "p", "G", "e", "t", "t", "e", "r",
      "_", "_" >>,
   << "_", "_", "l", "o", "o", "k", "u", "p", "S", "e", "t", "t", "e", "r",
      "_", "_" >>}

ObjectPrototypeKeys == {ProtoName} \cup ObjectPrototypeMethods

\* What an inherited key holds, with the text String() gives for it: the
\* prototype object for `__proto__`, a native function for any other.
Inherited(key) ==
  IF key = ProtoName
  THEN [t |-> "object", v |-> << << "[", "o", "b", "j", "e", "c", "t", " ", "O", "b",
                           "j", "e", "c", "t", "]" >> >>]
  ELSE [t |-> "function",
        v |-> << << "f", "u", "n", "c", "t", "i", "o", "n", " " >>
                   \o (IF key = << "c", "o", "n", "s", "t", "r", "u", "c", "t", "o",
                          "r" >>
                       THEN << "O", "b", "j", "e", "c", "t" >> ELSE key)
                   \o << "(", ")", " ", "{", " ", "[", "n", "a", "t", "i",
                         "v", "e", " ", "c", "o", "d", "e", "]", " ", "}" >> >>]

\* key in obj, for a plain object: own and inherited properties.
HasProperty(obj, key) == key \in DOMAIN obj \/ key \in ObjectPrototypeKeys

\* obj[key], for a key in obj.
Get(obj, key) == IF key \in DOMAIN obj THEN obj[key] ELSE Inherited(key)

\* obj[key] = value, for an obj made by `{}`: an own property, except that
\* the assignment to `__proto__` goes to the inherited setter, which makes
\* no own property (it ignores a string and takes an array as prototype).
Put(obj, key, value) ==
  IF key = ProtoName THEN obj ELSE Own(obj, key, value)

\* The parameters of the captures of results, written in their order.
extractParameters(tokens, results) ==
  LET captureTokens == removeRawTokens(tokens)
      captures == slice1(results)
      callback(acc, index) ==
        LET capture == captures[index]
            token == captureTokens[index]
            parts == split(capture)
            param == IF token.type = MULTI
                     THEN IF Len(getLastItem(parts)) = 0
                          THEN Array(removeLastItem(parts))
                          ELSE Array(parts)
                     ELSE IF Len(capture) > 0 /\ getLastItem(capture) = "/"
                          THEN String(removeLastItem(capture))
                          ELSE String(capture)
        IN  IF ~Truthy(token.name) THEN acc ELSE Put(acc, token.name, param)
      RECURSIVE forEach(_)
      forEach(index) ==
        IF index = 0 THEN EmptyObject ELSE callback(forEach(index - 1), index)
  IN  forEach(Len(captures))

\* Mutant: without a match nothing is returned.
buildParameterFunction_NoParams(tokens, results) ==
  IF results = null THEN undefined ELSE extractParameters(tokens, results)

\* The function buildParameterFunction(tokens) returns, applied to results.
buildParameterFunction(tokens, results) ==
  IF results = null THEN EmptyObject ELSE extractParameters(tokens, results)

\* ---------------------------------------------------------------- Pattern.ts

\* The value as Array.prototype.join renders an element: a string as itself,
\* an array as its elements joined by ',', anything else as its String() text.
toString(value) ==
  IF value.t = "array" THEN join(value.v, << "," >>) ELSE value.v[1]

\* Pattern.buildParameterizedTopic on the pattern string pattern.
buildParameterizedTopic(pattern, ps) ==
  LET segs == split(pattern)
      map(token) ==
        IF Len(token) > 0 /\ token[1] = "+"
        THEN LET key == slice1(token)
             IN  IF HasProperty(ps, key) THEN toString(Get(ps, key)) ELSE token
        ELSE IF Len(token) > 0 /\ token[1] = "#"
        THEN LET key == slice1(token)
             IN  IF HasProperty(ps, key)
                 THEN IF Get(ps, key).t = "array"
                      THEN join(Get(ps, key).v, << "/" >>)
                      ELSE toString(Get(ps, key))
                 ELSE token
        ELSE token
  IN  join([i \in 1..Len(segs) |-> map(segs[i])], << "/" >>)

\* The constructor's assignments, in their order, for the tokens and the
\* compiled expression; an exception of either leaves the constructor.
construct(pattern, tokens, regex) ==
  IF tokens.throw THEN tokens
  ELSE IF regex.throw THEN regex
  ELSE Normal([_pattern    |-> pattern,
               _topic      |-> buildTopic(tokens.value),
               _regex      |-> regex.value,
               _fnParams   |-> tokens.value,
               _paramCount |-> buildParameterCount(tokens.value)])

\* The tokens the constructor works on: those of tokenize, which it does not
\* get past when tokenize throws.
tokensOf(tokens) == IF tokens.throw THEN << >> ELSE tokens.value

\* new Pattern(pattern): the object, or the exception thrown.
Pattern(pattern) ==
  construct(pattern, tokenize(pattern),
            buildRegularExpression(tokensOf(tokenize(pattern))))

\* What the caller of Pattern.from holds afterwards.
Returned(completion) ==
  IF completion.throw
  THEN /\ pc' = "thrown"
       /\ error' = completion.value
       /\ UNCHANGED <<_pattern, _topic, _regex, _fnParams, _paramCount>>
  ELSE /\ pc' = "ready"
       /\ error' = ""
       /\ _pattern' = completion.value._pattern
       /\ _topic' = completion.value._topic
       /\ _regex' = completion.value._regex
       /\ _fnParams' = completion.value._fnParams
       /\ _paramCount' = completion.value._paramCount

\* ------------------------------------------------------------- the inputs

\* The pattern strings handed to Pattern.from.
Patterns ==
  StringsUpTo(Alphabet, MaxPatternLen)
    \cup {<< "+" >> \o ProtoName, << "#" >> \o ProtoName,
          << "+" >> \o ProtoName \o << "/", "#" >> \o ProtoName}

\* The topic strings handed to match.
Topics == StringsUpTo(Alphabet, MaxTopicLen)

\* The strings among the parameter values handed to buildParameterizedTopic.
ValueStrings == StringsUpTo(Alphabet, MaxValueLen)

\* The elements of the arrays among them: the empty string and the strings of
\* one character.
ElementStrings == {<< >>} \cup {<< c >> : c \in Alphabet}

RECURSIVE ArraysUpTo(_)
\* The arrays of at most n elements.
ArraysUpTo(n) ==
  IF n = 0 THEN {<< >>}
  ELSE LET shorter == ArraysUpTo(n - 1)
       IN  shorter \cup {Append(xs, s) : xs \in shorter, s \in ElementStrings}

\* The '/'-separated segments of a string.
Segments(str) == split(str)

IsSingle(seg) == Len(seg) > 0 /\ seg[1] = "+"
IsMulti(seg) == Len(seg) > 0 /\ seg[1] = "#"
IsWildcard(seg) == IsSingle(seg) \/ IsMulti(seg)
IsRaw(seg) == ~IsWildcard(seg)
IsNamed(seg) == IsWildcard(seg) /\ Len(seg) > 1

\* The names of the pattern's named wildcard segments.
Names(pattern) ==
  {slice1(Segments(pattern)[i]) :
     i \in {j \in 1..Len(Segments(pattern)) : IsNamed(Segments(pattern)[j])}}

\* The values of the right type for name: a string when a single wildcard
\* carries the name, an array of strings when a multi wildcard does.
ValuesFor(pattern, name) ==
  LET segs == Segments(pattern)
      carriers == {i \in 1..Len(segs) : IsNamed(segs[i]) /\ slice1(segs[i]) = name}
  IN  {String(s) : s \in {x \in ValueStrings :
                            \A i \in carriers : IsSingle(segs[i])}}
      \cup {Array(xs) : xs \in {x \in ArraysUpTo(MaxArrayLen) :
                                  \A i \in carriers : IsMulti(segs[i])}}

RECURSIVE Assignments(_, _)
\* The objects that give each of names a value of the right type.
Assignments(pattern, names) ==
  IF names = {} THEN {EmptyObject}
  ELSE LET name == CHOOSE k \in names : TRUE
       IN  {Own(obj, name, v) : obj \in Assignments(pattern, names \ {name}),
                                v \in ValuesFor(pattern, name)}

\* The params objects handed to buildParameterizedTopic: the complete,
\* type-correct assignments of the pattern's named wildcards.
ParamObjects(pattern) == Assignments(pattern, Names(pattern))

\* The keys a params object may hold for the pattern: the names of its
\* wildcards, the empty name of an unnamed wildcard among them.
KeysOf(pattern) ==
  {slice1(Segments(pattern)[i]) :
     i \in {j \in 1..Len(Segments(pattern)) : IsWildcard(Segments(pattern)[j])}}

\* The values a params object may hold: strings and arrays of strings.
AnyValues ==
  {String(s) : s \in ValueStrings} \cup {Array(xs) : xs \in ArraysUpTo(MaxArrayLen)}

RECURSIVE ObjectsOver(_)
\* The objects with some of keys as own properties, of whatever value.
ObjectsOver(keys) ==
  IF keys = {} THEN {EmptyObject}
  ELSE LET key == CHOOSE k \in keys : TRUE
           rest == ObjectsOver(keys \ {key})
       IN  rest \cup {Own(obj, key, v) : obj \in rest, v \in AnyValues}

\* The params objects handed to buildParameterizedTopic by a caller that
\* gives some wildcards a value, of the right type or not.
AnyParamObjects(pattern) == ObjectsOver(KeysOf(pattern))

\* ------------------------------------------------------------------ Bus.ts

\* enum Status
Status ==
  [READY |-> "READY", CONNECTING |-> "CONNECTING", CONNECTED |-> "CONNECTED",
   RECONNECTING |-> "RECONNECTING", OFFLINE |-> "OFFLINE", ERROR |-> "ERROR",
   CLOSED |-> "CLOSED"]

\* this._client = null
NullClient ==
  [isNull |-> TRUE, connected |-> FALSE, reconnecting |-> FALSE,
   awaiting |-> FALSE, listening |-> FALSE]

\* The client mqtt.connect returns: not connected yet, with the once-listeners
\* of connect() on it (awaiting) and none of _addEventListeners (listening).
NewClient ==
  [isNull |-> FALSE, connected |-> FALSE, reconnecting |-> FALSE,
   awaiting |-> TRUE, listening |-> FALSE]

\* Mutant: isAvailable never finds a client.
isAvailable_Never == FALSE

\* this._client && this._client !== null
isAvailable == ~_client.isNull

\* Mutant: no label is ever found in the Map.
Has_Never(map, label) == FALSE

\* A Map, in insertion order: has, get, set and delete.
Has(map, label) == \E i \in 1..Len(map) : map[i].label = label
MapGet(map, label) == map[CHOOSE i \in 1..Len(map) : map[i].label = label].pattern
MapSet(map, label, pattern) ==
  IF Has(map, label)
  THEN [i \in 1..Len(map) |->
          IF map[i].label = label THEN [label |-> label, pattern |-> pattern]
          ELSE map[i]]
  ELSE Append(map, [label |-> label, pattern |-> pattern])
MapDelete(map, label) == SelectSeq(map, LAMBDA e : e.label # label)

\* The decimal text of a small array index.
Digits == << "0", "1", "2", "3", "4", "5", "6", "7", "8", "9" >>
IndexText(i) ==
  IF i < 10 THEN << Digits[i + 1] >>
  ELSE << Digits[(i \div 10) + 1], Digits[(i % 10) + 1] >>

\* The keys an array has besides its indices: length and what it inherits
\* from Array.prototype.
ArrayPrototypeKeys ==
  {<< "l", "e", "n", "g", "t", "h" >>,
   << "c", "o", "n", "c", "a", "t" >>,
   << "c", "o", "p", "y", "W", "i", "t", "h", "i", "n" >>,
   << "e", "n", "t", "r", "i", "e", "s" >>,
   << "e", "v", "e", "r", "y" >>,
   << "f", "i", "l", "l" >>,
   << "f", "i", "l", "t", "e", "r" >>,
   << "f", "i", "n", "d" >>,
   << "f", "i", "n", "d", "I", "n", "d", "e", "x" >>,
   << "f", "o", "r", "E", "a", "c", "h" >>,
   << "i", "n", "c", "l", "u", "d", "e", "s" >>,
   << "i", "n", "d", "e", "x", "O", "f" >>,
   << "j", "o", "i", "n" >>,
   << "k", "e", "y", "s" >>,
   << "l", "a", "s", "t", "I", "n", "d", "e", "x", "O", "f" >>,
   << "m", "a", "p" >>,
   << "p", "o", "p" >>,
   << "p", "u", "s", "h" >>,
   << "r", "e", "d", "u", "c", "e" >>,
   << "r", "e", "d", "u", "c", "e", "R", "i", "g", "h", "t" >>,
   << "r", "e", "v", "e", "r", "s", "e" >>,
   << "s", "h", "i", "f", "t" >>,
   << "s", "l", "i", "c", "e" >>,
   << "s", "o", "m", "e" >>,
   << "s", "o", "r", "t" >>,
   << "s", "p", "l", "i", "c", "e" >>,
   << "u", "n", "s", "h", "i", "f", "t" >>,
   << "v", "a", "l", "u", "e", "s" >>}

\* key in items, for an array: true of its indices, of length and of the
\* inherited keys, whatever the elements are.
InArray(key, items) ==
  \/ key \in {IndexText(i - 1) : i \in 1..Len(items)}
  \/ key \in ArrayPrototypeKeys
  \/ key \in ObjectPrototypeKeys

\* items.indexOf(item), from 0, or -1.
indexOf(items, item) ==
  IF \E i \in 1..Len(items) : items[i] = item
  THEN (CHOOSE i \in 1..Len(items) :
          items[i] = item /\ \A j \in 1..(i - 1) : items[j] # item) - 1
  ELSE 0 - 1

\* items.splice(start, 1), start from 0: a negative start counts from the
\* end, and a start past the end removes nothing.
splice1(items, start) ==
  LET from == IF start < 0
              THEN (IF Len(items) + start < 0 THEN 0 ELSE Len(items) + start)
              ELSE start
  IN  IF from >= Len(items) THEN items
      ELSE SubSeq(items, 1, from) \o SubSeq(items, from + 2, Len(items))

\* Object.keys(obj).length
KeyCount(obj) == Cardinality(DOMAIN obj)

\* What a call came to: its name, label, pattern and params, whether it returned, threw, or
\* gave a promise that is pending, resolved or rejected, the Error's message,
\* and the requests the call handed to the client.
Outcome(name, label, state, msg, handed) ==
  [name |-> name, label |-> label, pattern |-> undefined, params |-> EmptyObject,
   state |-> state, error |-> msg, client |-> handed]

\* The same for setPattern, addPattern and the older subscribe, which are
\* handed a pattern.
PatternOutcome(name, label, pattern, state, msg, handed) ==
  [Outcome(name, label, state, msg, handed) EXCEPT !.pattern = pattern]

\* The same for publish, which is handed a params object.
PublishOutcome(label, ps, state, msg, handed) ==
  [Outcome("publish", label, state, msg, handed) EXCEPT !.params = ps]

NoCall == Outcome("none", "", "none", "", << >>)

\* A request the client has in flight, with what its callback uses of the
\* call's label, pattern, index and flag.
Request(method, label, pattern, index, flag) ==
  [method |-> method, label |-> label, pattern |-> pattern, index |-> index,
   flag |-> flag]

\* No message has arrived.
NoPacket == [topic |-> undefined]

\* An Error of the client, handed to a callback or to an 'error' listener.
ClientError == "client error"

\* The methods of a Pattern that the Bus calls.
getTopic(pattern) == pattern._topic
getParameterCount(pattern) == pattern._paramCount
match(pattern, tpc) == exec(pattern._regex, tpc)
getParameters(pattern, results) == buildParameterFunction(pattern._fnParams, results)

\* The labels, the patterns and the message topics of the Bus's callers and
\* broker.
Labels == {"l1", "l2"}
BusPatterns ==
  {<< "0" >>, << "+", "a" >>, << "#", "/", "a" >>}
BusTopics == {<< "0" >>, << "a" >>, << "0", "/", "0" >>}

\* Pattern.from(pattern), for each of them.
FromPattern == [pattern \in BusPatterns |-> Pattern(pattern)]

RECURSIVE BusObjectsOver(_)
\* The objects with some of keys as own properties, each with the string 'a'.
BusObjectsOver(keys) ==
  IF keys = {} THEN {EmptyObject}
  ELSE LET key == CHOOSE k \in keys : TRUE
           rest == BusObjectsOver(keys \ {key})
       IN  rest \cup {Own(obj, key, String(<< "a" >>)) : obj \in rest}

\* The params objects handed to publish: over the pattern's wildcards and a
\* key 'x' that is none of them.
BusParams(pattern) == BusObjectsOver(KeysOf(pattern._pattern) \cup {<< "x" >>})

\* The subscribe requests in flight.
Subscribing == SelectSeq(requests, LAMBDA r : r.method = "subscribe")

\* requests without its i-th, whose callback is being called.
Answered(i) == SubSeq(requests, 1, i - 1) \o SubSeq(requests, i + 1, Len(requests))

\* new Bus(...): the field initialisers.
BusConstructed ==
  /\ _status = Status.READY
  /\ _client = NullClient
  /\ _patterns = << >>
  /\ _subscriptionLabels = << >>
  /\ _publicationLabels = << >>
  /\ _subscriptionTopics = << >>
  /\ requests = << >>
  /\ call = NoCall
  /\ packet = NoPacket
  /\ emitted = << >>

\* ------------------------------------------------------------ the actions

Init ==
  /\ src \in Patterns
  /\ pc = "new"
  /\ error = ""
  /\ _pattern = undefined
  /\ _topic = undefined
  /\ _regex = undefined
  /\ _fnParams = undefined
  /\ _paramCount = 0
  /\ op = "none"
  /\ built = FALSE
  /\ topic = undefined
  /\ result = null
  /\ params = EmptyObject
  /\ extracted = EmptyObject
  /\ version = "newer"
  /\ BusConstructed

\* Pattern.from(src): the constructor runs to its end, or an exception leaves
\* it and no Pattern is returned.
From ==
  /\ pc = "new"
  /\ Returned(Pattern(src))
  /\ UNCHANGED <<src, op, built, topic, result, params, extracted>>
  /\ UNCHANGED busVars

\* pattern.match(t), for a topic that arrives
Match ==
  /\ pc = "ready"
  /\ op = "none"
  /\ \E t \in Topics :
       /\ topic' = t
       /\ result' = exec(_regex, t)
       /\ _regex' = afterExec(_regex, t)
  /\ op' = "match"
  /\ UNCHANGED <<src, pc, error, _pattern, _topic, _fnParams, _paramCount,
                 built, params, extracted>>
  /\ UNCHANGED busVars

\* pattern.buildParameterizedTopic(ps)
BuildParameterizedTopic ==
  /\ pc = "ready"
  /\ op = "none"
  /\ \E ps \in ParamObjects(_pattern) :
       /\ params' = ps
       /\ topic' = buildParameterizedTopic(_pattern, ps)
  /\ built' = TRUE
  /\ op' = "buildParameterizedTopic"
  /\ UNCHANGED <<src, pc, error, _pattern, _topic, _regex, _fnParams, _paramCount,
                 result, extracted>>
  /\ UNCHANGED busVars

\* pattern.buildParameterizedTopic(ps), for whatever object ps
BuildAnyTopic ==
  /\ pc = "ready"
  /\ op = "none"
  /\ \E ps \in AnyParamObjects(_pattern) :
       /\ params' = ps
       /\ topic' = buildParameterizedTopic(_pattern, ps)
  /\ built' = TRUE
  /\ op' = "buildParameterizedTopic"
  /\ UNCHANGED <<src, pc, error, _pattern, _topic, _regex, _fnParams, _paramCount,
                 result, extracted>>
  /\ UNCHANGED busVars

\* The caller takes the built topic away; the Pattern stays for the next call.
UseTopic ==
  /\ pc = "ready"
  /\ op = "buildParameterizedTopic"
  /\ op' = "none"
  /\ built' = FALSE
  /\ topic' = undefined
  /\ params' = EmptyObject
  /\ UNCHANGED <<src, pc, error, _pattern, _topic, _regex, _fnParams, _paramCount,
                 result, extracted>>
  /\ UNCHANGED busVars

\* pattern.match(topic), for the topic buildParameterizedTopic returned
MatchBuilt ==
  /\ pc = "ready"
  /\ op = "buildParameterizedTopic"
  /\ result' = exec(_regex, topic)
  /\ _regex' = afterExec(_regex, topic)
  /\ op' = "match"
  /\ UNCHANGED <<src, pc, error, _pattern, _topic, _fnParams, _paramCount,
                 built, topic, params, extracted>>
  /\ UNCHANGED busVars

\* pattern.getParameters(result), for the result of the last match
GetParameters ==
  /\ pc = "ready"
  /\ op = "match"
  /\ extracted' = buildParameterFunction(_fnParams, result)
  /\ op' = "getParameters"
  /\ UNCHANGED <<src, pc, error, _pattern, _topic, _regex, _fnParams, _paramCount,
                 built, topic, result, params>>
  /\ UNCHANGED busVars

\* pattern.match(topic) once more, for the topic matched before
Rematch ==
  /\ pc = "ready"
  /\ op = "getParameters"
  /\ result' = exec(_regex, topic)
  /\ _regex' = afterExec(_regex, topic)
  /\ op' = "rematch"
  /\ UNCHANGED <<src, pc, error, _pattern, _topic, _fnParams, _paramCount,
                 built, topic, params, extracted>>
  /\ UNCHANGED busVars

\* The caller drops the topic, the match and the parameters; the Pattern stays
\* for the next call.
Return ==
  /\ pc = "ready"
  /\ op \in {"getParameters", "rematch"}
  /\ op' = "none"
  /\ built' = FALSE
  /\ topic' = undefined
  /\ result' = null
  /\ params' = EmptyObject
  /\ extracted' = EmptyObject
  /\ UNCHANGED <<src, pc, error, _pattern, _topic, _regex, _fnParams, _paramCount>>
  /\ UNCHANGED busVars

\* A pattern is compiled once and then matched against the topics that arrive.
Next ==
  \/ From
  \/ Match
  \/ GetParameters
  \/ Return

Spec == Init /\ [][Next]_vars

\* A pattern is compiled once; topics are built from parameters and matched
\* back into parameters.
NextBuild ==
  \/ From
  \/ BuildParameterizedTopic
  \/ MatchBuilt
  \/ GetParameters
  \/ Return

SpecBuild == Init /\ [][NextBuild]_vars

\* A pattern is compiled once; topics to publish on are built from it.
NextTopic ==
  \/ From
  \/ BuildAnyTopic
  \/ UseTopic

SpecTopic == Init /\ [][NextTopic]_vars

\* A pattern is compiled once and then used call after call: topics are
\* built, matched, taken apart and matched again.
NextCalls ==
  \/ From
  \/ BuildParameterizedTopic
  \/ MatchBuilt
  \/ GetParameters
  \/ Rematch
  \/ Return

SpecCalls == Init /\ [][NextCalls]_vars

\* ------------------------------------------------------------------ the Bus

\* Nothing of the Pattern under test, and no call yet on a Bus of either
\* version.
InitBus ==
  /\ src = << >>
  /\ pc = "new"
  /\ error = ""
  /\ _pattern = undefined
  /\ _topic = undefined
  /\ _regex = undefined
  /\ _fnParams = undefined
  /\ _paramCount = 0
  /\ op = "none"
  /\ built = FALSE
  /\ topic = undefined
  /\ result = null
  /\ params = EmptyObject
  /\ extracted = EmptyObject
  /\ version \in {"older", "newer"}
  /\ BusConstructed

\* What every call and callback leaves alone, and the message it forgets.
NoMessage ==
  /\ packet' = NoPacket
  /\ emitted' = << >>
  /\ UNCHANGED patternVars

\* A method or callback of the newer version, which has none of the older
\* version's fields.
NewerOnly ==
  /\ version = "newer"
  /\ UNCHANGED <<version, _subscriptionLabels, _publicationLabels>>

\* A method or callback of the older version, which has no _patterns.
OlderOnly ==
  /\ version = "older"
  /\ UNCHANGED <<version, _patterns>>

\* What is the same in both versions leaves the labels alone.
BothVersions ==
  UNCHANGED <<version, _patterns, _subscriptionLabels, _publicationLabels>>

\* The older version's messages name the method.
Prefix(name) == IF version = "older" THEN name \o ": " ELSE ""

\* The labels to publish on, and the labels whose patterns messages are
\* matched against.
PublicationLabels == IF version = "older" THEN _publicationLabels ELSE _patterns
MessageLabels == IF version = "older" THEN _subscriptionLabels ELSE _patterns

RECURSIVE Text(_)
\* The characters of a string in an Error's message.
Text(str) == IF str = << >> THEN "" ELSE Head(str) \o Text(Tail(str))

\* bus.setPattern(label, pattern)
SetPattern ==
  \E label \in Labels, pattern \in BusPatterns :
    /\ NewerOnly
    /\ IF Has(_patterns, label)
       THEN /\ call' = PatternOutcome("setPattern", label, pattern, "thrown",
                               "label already in use (" \o label \o ")", << >>)
            /\ UNCHANGED _patterns
       ELSE IF FromPattern[pattern].throw
       THEN /\ call' = PatternOutcome("setPattern", label, pattern, "thrown",
                               FromPattern[pattern].value, << >>)
            /\ UNCHANGED _patterns
       ELSE /\ _patterns' = MapSet(_patterns, label, FromPattern[pattern].value)
            /\ call' = PatternOutcome("setPattern", label, pattern, "returned", "",
                                      << >>)
    /\ UNCHANGED <<_status, _client, _subscriptionTopics, requests>>
    /\ NoMessage

\* bus.removePattern(label)
RemovePattern ==
  \E label \in Labels :
    /\ NewerOnly
    /\ IF Has(_patterns, label)
       THEN /\ call' = Outcome("removePattern", label, "thrown",
                               "unknown label (" \o label \o ")", << >>)
            /\ UNCHANGED _patterns
       ELSE /\ _patterns' = MapDelete(_patterns, label)
            /\ call' = Outcome("removePattern", label, "returned", "", << >>)
    /\ UNCHANGED <<_status, _client, _subscriptionTopics, requests>>
    /\ NoMessage

\* bus.addPattern(label, pattern), of the older version
AddPattern ==
  \E label \in Labels, pattern \in BusPatterns :
    /\ OlderOnly
    /\ IF Has(_publicationLabels, label)
       THEN /\ call' = PatternOutcome("addPattern", label, pattern, "rejected",
                               "addPattern: label already in use (" \o label \o ")",
                               << >>)
            /\ UNCHANGED _publicationLabels
       ELSE IF FromPattern[pattern].throw
       THEN /\ call' = PatternOutcome("addPattern", label, pattern, "rejected",
                               FromPattern[pattern].value, << >>)
            /\ UNCHANGED _publicationLabels
       ELSE /\ _publicationLabels' =
                 MapSet(_publicationLabels, label, FromPattern[pattern].value)
            /\ call' = PatternOutcome("addPattern", label, pattern, "resolved", "",
                                      << >>)
    /\ UNCHANGED <<_status, _client, _subscriptionLabels, _subscriptionTopics,
                   requests>>
    /\ NoMessage

\* this._setStatus(status, false) in connect() of the older version; the
\* newer version's connect() leaves the status to the client's events.
SetStatusInConnect(status) ==
  _status' = IF version = "older" THEN status ELSE _status

\* bus.connect()
Connect ==
  /\ IF isAvailable
     THEN /\ call' = Outcome("connect", "", "rejected",
                             "connect: bus already available", << >>)
          /\ UNCHANGED <<_client, _status>>
     ELSE /\ SetStatusInConnect(Status.CONNECTING)
          /\ _client' = NewClient
          /\ call' = Outcome("connect", "", "pending", "",
                             << [method |-> "connect", topic |-> << >>] >>)
  /\ UNCHANGED <<_subscriptionTopics, requests>>
  /\ BothVersions
  /\ NoMessage

\* onConnect, the once-listener of connect()
OnConnect ==
  /\ _client.awaiting
  /\ SetStatusInConnect(Status.CONNECTED)
  /\ _client' = [_client EXCEPT !.awaiting = FALSE, !.listening = TRUE,
                                !.connected = TRUE]
  /\ call' = Outcome("onConnect", "", "resolved", "", << >>)
  /\ UNCHANGED <<_subscriptionTopics, requests>>
  /\ BothVersions
  /\ NoMessage

\* onError, the once-listener of connect()
OnError ==
  /\ _client.awaiting
  /\ SetStatusInConnect(Status.ERROR)
  /\ _client' = NullClient
  /\ call' = Outcome("onError", "", "rejected", ClientError, << >>)
  /\ UNCHANGED <<_subscriptionTopics, requests>>
  /\ BothVersions
  /\ NoMessage

\* The status for an event of the client, and the client's flags after it.
StatusOn(event) ==
  IF event = "connect" THEN Status.CONNECTED
  ELSE IF event = "reconnect" THEN Status.RECONNECTING
  ELSE IF event = "offline" THEN Status.OFFLINE
  ELSE IF event = "close" THEN Status.CLOSED
  ELSE Status.ERROR

ClientOn(client, event) ==
  IF event = "connect"
  THEN [client EXCEPT !.connected = TRUE, !.reconnecting = FALSE]
  ELSE IF event = "reconnect" THEN [client EXCEPT !.reconnecting = TRUE]
  ELSE IF event \in {"offline", "close"} THEN [client EXCEPT !.connected = FALSE]
  ELSE client

\* The listeners of _addEventListeners for the client's status events.
ClientEvent ==
  \E event \in {"connect", "reconnect", "offline", "close", "error"} :
    /\ _client.listening
    /\ _status' = StatusOn(event)
    /\ _client' = ClientOn(_client, event)
    /\ call' = NoCall
    /\ UNCHANGED <<_subscriptionTopics, requests>>
    /\ BothVersions
    /\ NoMessage

\* bus.end(force)
End ==
  /\ NewerOnly
  /\ IF ~isAvailable
     THEN /\ call' = Outcome("end", "", "rejected", "bus not available", << >>)
          /\ UNCHANGED requests
     ELSE /\ Len(requests) < MaxInFlight
          /\ requests' = Append(requests, Request("end", "", undefined, 0, FALSE))
          /\ call' = Outcome("end", "", "pending", "",
                             << [method |-> "end", topic |-> << >>] >>)
  /\ UNCHANGED <<_status, _client, _patterns, _subscriptionTopics>>
  /\ NoMessage

\* The callback of this._client.end: on a client that an earlier callback
\* has set to null, removeAllListeners throws and the promise stays pending.
EndCallback ==
  \E i \in 1..Len(requests) :
    /\ NewerOnly
    /\ requests[i].method = "end"
    /\ requests' = Answered(i)
    /\ IF _client.isNull
       THEN /\ call' = Outcome("end callback", "", "thrown",
                 "TypeError: Cannot read property 'removeAllListeners' of null",
                 << >>)
            /\ UNCHANGED _client
       ELSE /\ _client' = NullClient
            /\ call' = Outcome("end callback", "", "resolved", "", << >>)
    /\ UNCHANGED <<_status, _patterns, _subscriptionTopics>>
    /\ NoMessage

\* The condition on which reset() rejects.
UnableToReset ==
  \/ _status # Status.CLOSED
  \/ (isAvailable /\ (_client.connected \/ _client.reconnecting))

\* The body of reset() past its condition. It calls neither resolve nor
\* reject, and nothing else holds them: the promise stays pending.
CarryOutReset ==
  /\ _subscriptionLabels' = << >>
  /\ _publicationLabels' = << >>
  /\ _subscriptionTopics' = << >>
  /\ _client' = NullClient
  /\ _status' = Status.READY

\* bus.reset(), of the older version
Reset ==
  /\ version = "older"
  /\ IF UnableToReset
     THEN /\ call' = Outcome("reset", "", "rejected",
                             "unable to reset, end connection first", << >>)
          /\ UNCHANGED <<_subscriptionLabels, _publicationLabels,
                         _subscriptionTopics, _client, _status>>
     ELSE /\ CarryOutReset
          /\ call' = Outcome("reset", "", "pending", "", << >>)
  /\ UNCHANGED <<version, _patterns, requests>>
  /\ NoMessage

\* bus.end(force, reset), of the older version
OldEnd ==
  \E reset \in BOOLEAN :
    /\ OlderOnly
    /\ IF ~isAvailable
       THEN /\ call' = Outcome("end", "", "rejected", "end: bus not available",
                               << >>)
            /\ UNCHANGED requests
       ELSE /\ Len(requests) < MaxInFlight
            /\ requests' = Append(requests, Request("end", "", undefined, 0, reset))
            /\ call' = Outcome("end", "", "pending", "",
                               << [method |-> "end", topic |-> << >>] >>)
    /\ UNCHANGED <<_status, _client, _subscriptionLabels, _publicationLabels,
                   _subscriptionTopics>>
    /\ NoMessage

\* The callback of this._client.end in the older version: the promise of
\* end() resolves, or it settles as the promise of reset() does.
OldEndCallback ==
  \E i \in 1..Len(requests) :
    /\ OlderOnly
    /\ requests[i].method = "end"
    /\ requests' = Answered(i)
    /\ IF ~requests[i].flag
       THEN /\ call' = Outcome("end callback", "", "resolved", "", << >>)
            /\ UNCHANGED <<_subscriptionLabels, _publicationLabels,
                           _subscriptionTopics, _client, _status>>
       ELSE IF UnableToReset
       THEN /\ call' = Outcome("end callback", "", "rejected",
                               "unable to reset, end connection first", << >>)
            /\ UNCHANGED <<_subscriptionLabels, _publicationLabels,
                           _subscriptionTopics, _client, _status>>
       ELSE /\ CarryOutReset
            /\ call' = Outcome("end callback", "", "pending", "", << >>)
    /\ NoMessage

\* bus.subscribe(label)
Subscribe ==
  \E label \in Labels :
    /\ NewerOnly
    /\ IF ~isAvailable
       THEN /\ call' = Outcome("subscribe", label, "rejected", "bus not available",
                               << >>)
            /\ UNCHANGED requests
       ELSE IF ~Has(_patterns, label)
       THEN /\ call' = Outcome("subscribe", label, "rejected",
                               "unknown label (" \o label \o ")", << >>)
            /\ UNCHANGED requests
       ELSE IF InArray(getTopic(MapGet(_patterns, label)), _subscriptionTopics)
       THEN /\ call' = Outcome("subscribe", label, "rejected",
                               "already subscribed to topic", << >>)
            /\ UNCHANGED requests
       ELSE /\ Len(requests) < MaxInFlight
            /\ Len(_subscriptionTopics) + Len(Subscribing) < MaxSubscriptions
            /\ requests' = Append(requests,
                 Request("subscribe", "", MapGet(_patterns, label), 0, FALSE))
            /\ call' = Outcome("subscribe", label, "pending", "",
                 << [method |-> "subscribe",
                     topic |-> getTopic(MapGet(_patterns, label))] >>)
    /\ UNCHANGED <<_status, _client, _patterns, _subscriptionTopics>>
    /\ NoMessage

\* The callback of this._client.subscribe
SubscribeCallback ==
  \E i \in 1..Len(requests), err \in BOOLEAN :
    /\ NewerOnly
    /\ requests[i].method = "subscribe"
    /\ requests' = Answered(i)
    /\ IF err
       THEN /\ call' = Outcome("subscribe callback", "", "rejected", ClientError,
                               << >>)
            /\ UNCHANGED _subscriptionTopics
       ELSE /\ _subscriptionTopics' =
                 Append(_subscriptionTopics, getTopic(requests[i].pattern))
            /\ call' = Outcome("subscribe callback", "", "resolved", "", << >>)
    /\ UNCHANGED <<_status, _client, _patterns>>
    /\ NoMessage

\* bus.subscribe(label, pattern), of the older version
OldSubscribe ==
  \E label \in Labels, pattern \in BusPatterns :
    /\ OlderOnly
    /\ IF ~isAvailable
       THEN /\ call' = PatternOutcome("subscribe", label, pattern, "rejected",
                               "subscribe: bus not available", << >>)
            /\ UNCHANGED requests
       ELSE IF Has(_subscriptionLabels, label)
       THEN /\ call' = PatternOutcome("subscribe", label, pattern, "rejected",
                               "subscribe: label already in use (" \o label \o ")",
                               << >>)
            /\ UNCHANGED requests
       ELSE IF FromPattern[pattern].throw
       THEN /\ call' = PatternOutcome("subscribe", label, pattern, "rejected",
                               FromPattern[pattern].value, << >>)
            /\ UNCHANGED requests
       ELSE IF InArray(getTopic(FromPattern[pattern].value), _subscriptionTopics)
       THEN /\ call' = PatternOutcome("subscribe", label, pattern, "rejected",
                 "subscribe: already subscribed to topic ("
                   \o Text(getTopic(FromPattern[pattern].value)) \o ")", << >>)
            /\ UNCHANGED requests
       ELSE /\ Len(requests) < MaxInFlight
            /\ Len(_subscriptionTopics) + Len(Subscribing) < MaxSubscriptions
            /\ requests' = Append(requests,
                 Request("subscribe", label, FromPattern[pattern].value, 0, FALSE))
            /\ call' = PatternOutcome("subscribe", label, pattern, "pending", "",
                 << [method |-> "subscribe",
                     topic |-> getTopic(FromPattern[pattern].value)] >>)
    /\ UNCHANGED <<_status, _client, _subscriptionLabels, _publicationLabels,
                   _subscriptionTopics>>
    /\ NoMessage

\* The callback of this._client.subscribe in the older version
OldSubscribeCallback ==
  \E i \in 1..Len(requests), err \in BOOLEAN :
    /\ OlderOnly
    /\ requests[i].method = "subscribe"
    /\ requests' = Answered(i)
    /\ IF err
       THEN /\ call' = Outcome("subscribe callback", requests[i].label, "rejected",
                               ClientError, << >>)
            /\ UNCHANGED <<_subscriptionLabels, _subscriptionTopics>>
       ELSE /\ _subscriptionLabels' =
                 MapSet(_subscriptionLabels, requests[i].label, requests[i].pattern)
            /\ _subscriptionTopics' =
                 Append(_subscriptionTopics, getTopic(requests[i].pattern))
            /\ call' = Outcome("subscribe callback", requests[i].label, "resolved",
                               "", << >>)
    /\ UNCHANGED <<_status, _client, _publicationLabels>>
    /\ NoMessage

\* bus.unsubscribe(label, removeListeners); the listeners of _messageEvents,
\* which removeListeners is about, are the callers' and not part of the state.
Unsubscribe ==
  \E label \in Labels :
    /\ NewerOnly
    /\ IF ~isAvailable
       THEN /\ call' = Outcome("unsubscribe", label, "rejected", "bus not available",
                               << >>)
            /\ UNCHANGED requests
       ELSE IF ~Has(_patterns, label)
       THEN /\ call' = Outcome("unsubscribe", label, "rejected",
                               "unknown label (" \o label \o ")", << >>)
            /\ UNCHANGED requests
       ELSE IF indexOf(_subscriptionTopics, getTopic(MapGet(_patterns, label))) = 0 - 1
       THEN /\ call' = Outcome("unsubscribe", label, "rejected",
                               "not subscribed to topic", << >>)
            /\ UNCHANGED requests
       ELSE /\ Len(requests) < MaxUnsubscribing
            /\ requests' = Append(requests,
                 Request("unsubscribe", "", MapGet(_patterns, label),
                         indexOf(_subscriptionTopics,
                                 getTopic(MapGet(_patterns, label))),
                         FALSE))
            /\ call' = Outcome("unsubscribe", label, "pending", "",
                 << [method |-> "unsubscribe",
                     topic |-> getTopic(MapGet(_patterns, label))] >>)
    /\ UNCHANGED <<_status, _client, _patterns, _subscriptionTopics>>
    /\ NoMessage

\* The callback of this._client.unsubscribe, with the index found at the call
UnsubscribeCallback ==
  \E i \in 1..Len(requests), err \in BOOLEAN :
    /\ NewerOnly
    /\ requests[i].method = "unsubscribe"
    /\ requests' = Answered(i)
    /\ IF err
       THEN /\ call' = Outcome("unsubscribe callback", "", "rejected", ClientError,
                               << >>)
            /\ UNCHANGED _subscriptionTopics
       ELSE /\ _subscriptionTopics' = splice1(_subscriptionTopics, requests[i].index)
            /\ call' = Outcome("unsubscribe callback", "", "resolved", "", << >>)
    /\ UNCHANGED <<_status, _client, _patterns>>
    /\ NoMessage

\* bus.unsubscribe(label, removeListeners), of the older version
OldUnsubscribe ==
  \E label \in Labels :
    /\ OlderOnly
    /\ IF ~isAvailable
       THEN /\ call' = Outcome("unsubscribe", label, "rejected",
                               "unsubscribe: bus not available", << >>)
            /\ UNCHANGED requests
       ELSE IF ~Has(_subscriptionLabels, label)
       THEN /\ call' = Outcome("unsubscribe", label, "rejected",
                               "unsubscribe: unknown label (" \o label \o ")", << >>)
            /\ UNCHANGED requests
       ELSE /\ Len(requests) < MaxUnsubscribing
            /\ requests' = Append(requests,
                 Request("unsubscribe", label, MapGet(_subscriptionLabels, label), 0,
                         FALSE))
            /\ call' = Outcome("unsubscribe", label, "pending", "",
                 << [method |-> "unsubscribe",
                     topic |-> getTopic(MapGet(_subscriptionLabels, label))] >>)
    /\ UNCHANGED <<_status, _client, _subscriptionLabels, _publicationLabels,
                   _subscriptionTopics>>
    /\ NoMessage

\* The callback of this._client.unsubscribe in the older version, which
\* looks the topic up when it is called
OldUnsubscribeCallback ==
  \E i \in 1..Len(requests), err \in BOOLEAN :
    /\ OlderOnly
    /\ requests[i].method = "unsubscribe"
    /\ requests' = Answered(i)
    /\ IF err
       THEN /\ call' = Outcome("unsubscribe callback", requests[i].label,
                               "rejected", ClientError, << >>)
            /\ UNCHANGED <<_subscriptionLabels, _subscriptionTopics>>
       ELSE /\ _subscriptionLabels' = MapDelete(_subscriptionLabels, requests[i].label)
            /\ _subscriptionTopics' =
                 splice1(_subscriptionTopics,
                         indexOf(_subscriptionTopics, getTopic(requests[i].pattern)))
            /\ call' = Outcome("unsubscribe callback", requests[i].label,
                               "resolved", "", << >>)
    /\ UNCHANGED <<_status, _client, _publicationLabels>>
    /\ NoMessage

\* Mutant: publish() without its check.
WrongParameterCount_Never(pattern, ps) == FALSE

\* The check of publish() on the number of keys of params.
WrongParameterCount(pattern, ps) == KeyCount(ps) # getParameterCount(pattern)

\* bus.publish(label, params, payload), the same in both versions but for
\* the map of labels and the messages
BusPublish ==
  \E label \in Labels :
    /\ IF ~isAvailable
       THEN /\ call' = Outcome("publish", label, "rejected",
                               Prefix("publish") \o "bus not available", << >>)
            /\ UNCHANGED requests
       ELSE IF ~Has(PublicationLabels, label)
       THEN /\ call' = Outcome("publish", label, "rejected",
                               Prefix("publish") \o "unknown label (" \o label \o ")",
                               << >>)
            /\ UNCHANGED requests
       ELSE \E ps \in BusParams(MapGet(PublicationLabels, label)) :
            IF WrongParameterCount(MapGet(PublicationLabels, label), ps)
            THEN /\ call' = PublishOutcome(label, ps, "rejected",
                      Prefix("publish") \o "wrong parameter count, got "
                        \o Digits[KeyCount(ps) + 1] \o ", expected "
                        \o Digits[getParameterCount(
                                     MapGet(PublicationLabels, label)) + 1],
                      << >>)
                 /\ UNCHANGED requests
            ELSE /\ Len(requests) < MaxInFlight
                 /\ requests' = Append(requests,
                      Request("publish", "", undefined, 0, FALSE))
                 /\ call' = PublishOutcome(label, ps, "pending", "",
                      << [method |-> "publish",
                          topic |-> buildParameterizedTopic(
                                      MapGet(PublicationLabels, label)._pattern,
                                      ps)] >>)
    /\ UNCHANGED <<_status, _client, _subscriptionTopics>>
    /\ BothVersions
    /\ NoMessage

\* The callback of this._client.publish
PublishCallback ==
  \E i \in 1..Len(requests), err \in BOOLEAN :
    /\ requests[i].method = "publish"
    /\ requests' = Answered(i)
    /\ call' = IF err
               THEN Outcome("publish callback", "", "rejected", ClientError, << >>)
               ELSE Outcome("publish callback", "", "resolved", "", << >>)
    /\ UNCHANGED <<_status, _client, _subscriptionTopics>>
    /\ BothVersions
    /\ NoMessage

RECURSIVE handleMessagePacket_NoBreak(_, _, _)
\* Mutant: the loop goes on after the first match.
handleMessagePacket_NoBreak(labels, i, tpc) ==
  IF i > Len(labels) THEN << >>
  ELSE IF match(labels[i].pattern, tpc) # null
  THEN << [label |-> labels[i].label,
           params |-> getParameters(labels[i].pattern,
                                    match(labels[i].pattern, tpc))] >>
         \o handleMessagePacket_NoBreak(labels, i + 1, tpc)
  ELSE handleMessagePacket_NoBreak(labels, i + 1, tpc)

RECURSIVE handleMessagePacket(_, _, _)
\* _handleMessagePacket(packet): the loop over the Map from its i-th entry,
\* and the events it emits, each with the label and packet.params.
handleMessagePacket(labels, i, tpc) ==
  IF i > Len(labels) THEN << >>
  ELSE IF match(labels[i].pattern, tpc) # null
  THEN << [label |-> labels[i].label,
           params |-> getParameters(labels[i].pattern,
                                    match(labels[i].pattern, tpc))] >>
  ELSE handleMessagePacket(labels, i + 1, tpc)

\* The 'message' listener of _addEventListeners
Message ==
  \E tpc \in BusTopics :
    /\ _client.listening
    /\ packet' = [topic |-> tpc]
    /\ emitted' = handleMessagePacket(MessageLabels, 1, tpc)
    /\ call' = NoCall
    /\ UNCHANGED <<_status, _client, _subscriptionTopics, requests>>
    /\ BothVersions
    /\ UNCHANGED patternVars

\* The labels, subscriptions, publications and messages of a Bus of either
\* version, over a client that connects and ends.
NextBus ==
  \/ SetPattern
  \/ RemovePattern
  \/ AddPattern
  \/ Connect
  \/ OnConnect
  \/ OnError
  \/ End
  \/ EndCallback
  \/ Subscribe
  \/ SubscribeCallback
  \/ OldSubscribe
  \/ OldSubscribeCallback
  \/ Unsubscribe
  \/ UnsubscribeCallback
  \/ OldUnsubscribe
  \/ OldUnsubscribeCallback
  \/ BusPublish
  \/ PublishCallback
  \/ Message

SpecBus == InitBus /\ [][NextBus]_vars

\* The connection of a Bus of either version: the client's events and the
\* status, the end of the connection and the reset.
NextConnection ==
  \/ AddPattern
  \/ Connect
  \/ OnConnect
  \/ OnError
  \/ ClientEvent
  \/ End
  \/ EndCallback
  \/ OldEnd
  \/ OldEndCallback
  \/ Reset

SpecConnection == InitBus /\ [][NextConnection]_vars

\* ------------------------------------------------------------- the claims

NoMulti(pattern) ==
  \A i \in 1..Len(Segments(pattern)) : ~IsMulti(Segments(pattern)[i])

AllRaw(pattern) ==
  \A i \in 1..Len(Segments(pattern)) : IsRaw(Segments(pattern)[i])

\* A segment that begins with '#' stands before the last segment.
MultiBeforeLast(pattern) ==
  \E i \in 1..(Len(Segments(pattern)) - 1) : IsMulti(Segments(pattern)[i])

\* match was called and its result is at hand.
Matched == op \in {"match", "getParameters"}

\* getTopic() of new Pattern(pattern): the constructor's buildTopic(tokens).
getTopicOf(pattern) == buildTopic(tokenize(pattern).value)

\* match(str) of that pattern.
matchOf(pattern, str) == exec(Pattern(pattern).value._regex, str)

\* The patterns and topics of the documentation.
DevicesStatus ==
  << "d", "e", "v", "i", "c", "e", "s", "/", "+", "d", "e", "v", "i", "c", "e",
     "I", "d", "/", "s", "t", "a", "t", "u", "s" >>
DevicesConfigKeys ==
  << "d", "e", "v", "i", "c", "e", "s", "/", "m", "y", "-", "d", "e", "v", "i",
     "c", "e", "/", "c", "o", "n", "f", "i", "g", "/", "#", "k", "e", "y", "s" >>
Devices42Status ==
  << "d", "e", "v", "i", "c", "e", "s", "/", "4", "2", "/", "s", "t", "a", "t",
     "u", "s" >>
Devices4243Status ==
  << "d", "e", "v", "i", "c", "e", "s", "/", "4", "2", "/", "4", "3", "/", "s",
     "t", "a", "t", "u", "s" >>
DevicesNoneStatus ==
  << "d", "e", "v", "i", "c", "e", "s", "/", "/", "s", "t", "a", "t", "u", "s" >>
ADotB == << "a", ".", "b" >>
AxB == << "a", "x", "b" >>
APlusB == << "a", "+", "b" >>
AAB == << "a", "a", "b" >>

\* What the documented patterns give, computed once.
DevicesStatusTopic == getTopicOf(DevicesStatus)
DevicesConfigKeysTopic == getTopicOf(DevicesConfigKeys)
Devices42StatusMatch == matchOf(DevicesStatus, Devices42Status)
Devices4243StatusMatch == matchOf(DevicesStatus, Devices4243Status)
DevicesNoneStatusMatch == matchOf(DevicesStatus, DevicesNoneStatus)
ADotBMatchesItself == matchOf(ADotB, ADotB) # null
ADotBMatchesAxB == matchOf(ADotB, AxB) # null
APlusBMatchesItself == matchOf(APlusB, APlusB) # null
APlusBMatchesAAB == matchOf(APlusB, AAB) # null

\* Each named wildcard of the pattern has a value of its type, and nothing
\* else has one.
TypeCorrect(pattern, ps) ==
  /\ DOMAIN ps = Names(pattern)
  /\ \A i \in 1..Len(Segments(pattern)) :
       IsNamed(Segments(pattern)[i]) =>
         ps[slice1(Segments(pattern)[i])].t =
           (IF IsSingle(Segments(pattern)[i]) THEN "string" ELSE "array")

DeepEquals(p, q) ==
  /\ DOMAIN p = DOMAIN q
  /\ \A k \in DOMAIN p : p[k] = q[k]

\* A string a single wildcard can match and give back: not empty, and free of
\* the separator and the sigils.
SegmentText(str) ==
  Len(str) > 0 /\ \A i \in 1..Len(str) : str[i] \notin {"/", "#", "+"}

\* Every string of every value of ps is such a string.
SegmentTexts(ps) ==
  \A k \in DOMAIN ps : \A j \in 1..Len(ps[k].v) : SegmentText(ps[k].v[j])

NoUnnamedWildcard(pattern) ==
  \A i \in 1..Len(Segments(pattern)) :
    IsWildcard(Segments(pattern)[i]) => IsNamed(Segments(pattern)[i])

\* A topic was built from params, matched, and its parameters extracted.
RoundTripDone == op = "getParameters" /\ built

\* C1, as claimed: for every compiled pattern and every complete, type-correct
\* assignment, getParameters(match(buildParameterizedTopic(params)))
\* deep-equals params.
C1_RoundTrip ==
  (RoundTripDone /\ TypeCorrect(_pattern, params)) => DeepEquals(extracted, params)

\* C1, amended: the round trip gives params back when the pattern has no
\* unnamed wildcard and no wildcard named `__proto__`, and every string of
\* the assignment is non-empty and holds none of '/', '#' and '+'.
C1_RoundTripOfSegmentTexts ==
  (/\ RoundTripDone
   /\ TypeCorrect(_pattern, params)
   /\ NoUnnamedWildcard(_pattern)
   /\ ProtoName \notin Names(_pattern)
   /\ SegmentTexts(params))
  => DeepEquals(extracted, params)

\* A round trip of a string and of a sequence of two strings.
C1_Witness ==
  /\ RoundTripDone
  /\ TypeCorrect(_pattern, params)
  /\ NoUnnamedWildcard(_pattern)
  /\ ProtoName \notin Names(_pattern)
  /\ SegmentTexts(params)
  /\ \E k \in DOMAIN params : params[k].t = "string"
  /\ \E k \in DOMAIN params : params[k].t = "array" /\ Len(params[k].v) = 2
  /\ DeepEquals(extracted, params)

\* C2: Pattern.from throws, during construction, for every pattern with a
\* segment that begins with '#' before the last segment; no Pattern is
\* returned, so none is ever matched.
C2_MultiBeforeLastThrows ==
  (pc # "new" /\ MultiBeforeLast(src))
  => (/\ pc = "thrown"
      /\ error = MultiError
      /\ _pattern = undefined
      /\ _topic = undefined
      /\ op = "none")

\* The exception for a '#' segment between two others.
C2_Witness ==
  /\ pc = "thrown"
  /\ \E i \in 2..(Len(Segments(src)) - 1) : IsMulti(Segments(src)[i])

\* C3: Pattern.from returns a Pattern for every pattern with no segment that
\* begins with '#' before the last segment.
C3_OtherPatternsCompile ==
  (pc # "new" /\ ~MultiBeforeLast(src)) => (pc = "ready" /\ error = "")

\* A compiled pattern with a raw segment that holds a metacharacter, an empty
\* segment and an unnamed wildcard.
C3_Witness ==
  /\ pc = "ready"
  /\ \E i \in 1..Len(Segments(src)) :
       IsRaw(Segments(src)[i]) /\ \E j \in 1..Len(Segments(src)[i]) :
                                     Segments(src)[i][j] \in matchOperatorsRe
  /\ \E i \in 1..Len(Segments(src)) : Segments(src)[i] = << >>
  /\ \E i \in 1..Len(Segments(src)) :
       IsWildcard(Segments(src)[i]) /\ ~IsNamed(Segments(src)[i])

\* C4, as claimed: getTopic() has as many segments as the pattern, and every
\* raw segment of the pattern stands in it verbatim at its position.
C4_RawSegmentsVerbatim ==
  pc = "ready" =>
    /\ Len(Segments(_topic)) = Len(Segments(src))
    /\ \A i \in 1..Len(Segments(src)) :
         IsRaw(Segments(src)[i]) => Segments(_topic)[i] = Segments(src)[i]

\* C5: in getTopic() every single wildcard segment is '+' and every multi
\* wildcard segment is '#', at its position; so for the documented patterns.
C5_WildcardsWithoutNames ==
  /\ pc = "ready" =>
       /\ Len(Segments(_topic)) = Len(Segments(src))
       /\ \A i \in 1..Len(Segments(src)) :
            /\ IsSingle(Segments(src)[i]) => Segments(_topic)[i] = << "+" >>
            /\ IsMulti(Segments(src)[i]) => Segments(_topic)[i] = << "#" >>
  /\ DevicesStatusTopic =
       << "d", "e", "v", "i", "c", "e", "s", "/", "+", "/", "s", "t", "a", "t",
          "u", "s" >>
  /\ DevicesConfigKeysTopic =
       << "d", "e", "v", "i", "c", "e", "s", "/", "m", "y", "-", "d", "e", "v",
          "i", "c", "e", "/", "c", "o", "n", "f", "i", "g", "/", "#" >>

\* A compiled pattern with a named single and a named multi wildcard.
C5_Witness ==
  /\ pc = "ready"
  /\ \E i \in 1..Len(Segments(src)) :
       IsSingle(Segments(src)[i]) /\ IsNamed(Segments(src)[i])
  /\ \E i \in 1..Len(Segments(src)) :
       IsMulti(Segments(src)[i]) /\ IsNamed(Segments(src)[i])

\* C6, as claimed: when match succeeds, every raw segment of the pattern
\* equals the topic's segment at its position.
C6_RawSegmentsMatchExactly ==
  (Matched /\ result # null) =>
    \A i \in 1..Len(Segments(src)) :
      IsRaw(Segments(src)[i]) =>
        /\ i <= Len(Segments(topic))
        /\ Segments(topic)[i] = Segments(src)[i]

\* C7: a pattern of raw segments only matches the topic that equals it and
\* the topic that equals it followed by one '/', and no other; `a.b` matches
\* `a.b` and not `axb`, `a+b` matches `a+b` and not `aab`.
C7_RawPatternMatchesItself ==
  /\ (Matched /\ AllRaw(src)) =>
       ((result # null) <=> (topic = src \/ topic = src \o << "/" >>))
  /\ ADotBMatchesItself /\ ~ADotBMatchesAxB
  /\ APlusBMatchesItself /\ ~APlusBMatchesAAB

\* A raw pattern that holds a metacharacter matches itself followed by '/'.
C7_Witness ==
  /\ Matched
  /\ AllRaw(src)
  /\ \E j \in 1..Len(src) : src[j] \in matchOperatorsRe
  /\ topic = src \o << "/" >>
  /\ result # null

\* C8: a pattern without a multi wildcard matches only topics with as many
\* segments as it has, or one more that is empty, and its single wildcards
\* stand against non-empty segments; so for the documented pattern.
C8_SingleWildcardOneSegment ==
  /\ (Matched /\ result # null /\ NoMulti(src)) =>
       /\ \/ Len(Segments(topic)) = Len(Segments(src))
          \/ /\ Len(Segments(topic)) = Len(Segments(src)) + 1
             /\ Segments(topic)[Len(Segments(topic))] = << >>
       /\ \A i \in 1..Len(Segments(src)) :
            IsSingle(Segments(src)[i]) => Len(Segments(topic)[i]) > 0
  /\ Devices42StatusMatch # null
  /\ Devices4243StatusMatch = null
  /\ DevicesNoneStatusMatch = null

\* A match of a pattern with a raw segment and a single wildcard.
C8_Witness ==
  /\ Matched
  /\ result # null
  /\ NoMulti(src)
  /\ \E i \in 1..Len(Segments(src)) : IsSingle(Segments(src)[i])
  /\ \E i \in 1..Len(Segments(src)) : IsRaw(Segments(src)[i])
  /\ Len(Segments(topic)) = Len(Segments(src)) + 1

\* C9: getParameterCount() is the number of segments that begin with '+' or
\* '#' and go on with a name.
C9_ParameterCount ==
  pc = "ready" =>
    _paramCount = Cardinality({i \in 1..Len(Segments(src)) : IsNamed(Segments(src)[i])})

\* A pattern with a named and an unnamed wildcard counts one parameter.
C9_Witness ==
  /\ pc = "ready"
  /\ \E i \in 1..Len(Segments(src)) :
       IsWildcard(Segments(src)[i]) /\ ~IsNamed(Segments(src)[i])
  /\ _paramCount = 1

\* The name of segment i is carried again by a later wildcard segment.
NamedAgain(pattern, i) ==
  \E j \in (i + 1)..Len(Segments(pattern)) :
    /\ IsWildcard(Segments(pattern)[j])
    /\ slice1(Segments(pattern)[j]) = slice1(Segments(pattern)[i])

\* C10, as claimed: after a successful match the keys of getParameters are the
\* pattern's wildcard names, and every named single wildcard maps to the
\* topic's segment at its position.
C10_ParametersBySegment ==
  (op = "getParameters" /\ result # null) =>
    /\ DOMAIN extracted = Names(src)
    /\ \A i \in 1..Len(Segments(src)) :
         (IsSingle(Segments(src)[i]) /\ IsNamed(Segments(src)[i])) =>
           /\ i <= Len(Segments(topic))
           /\ extracted[slice1(Segments(src)[i])] = String(Segments(topic)[i])

\* C10, amended: the keys are the pattern's wildcard names other than
\* `__proto__`, and every named single wildcard whose name is such a key and
\* is carried by no later wildcard segment maps to the topic's segment at its
\* position.
C10_ParametersByLastSegment ==
  (op = "getParameters" /\ result # null) =>
    /\ DOMAIN extracted = Names(src) \ {ProtoName}
    /\ \A i \in 1..Len(Segments(src)) :
         (/\ IsSingle(Segments(src)[i])
          /\ IsNamed(Segments(src)[i])
          /\ slice1(Segments(src)[i]) # ProtoName
          /\ ~NamedAgain(src, i)) =>
           /\ i <= Len(Segments(topic))
           /\ extracted[slice1(Segments(src)[i])] = String(Segments(topic)[i])

\* The parameters of a match in which an unnamed wildcard stands before a
\* named single wildcard.
C10_Witness ==
  /\ op = "getParameters"
  /\ result # null
  /\ \E i \in 1..Len(Segments(src)) : \E j \in 1..(i - 1) :
       /\ IsSingle(Segments(src)[i]) /\ IsNamed(Segments(src)[i])
       /\ IsWildcard(Segments(src)[j]) /\ ~IsNamed(Segments(src)[j])
       /\ extracted[slice1(Segments(src)[i])] = String(Segments(topic)[i])

\* What the claim has in place of a segment: the value of the key the
\* wildcard names, a sequence under a multi wildcard joined with '/', any
\* other value as the text it has as a string; the segment itself when it is
\* raw or names no key of ps.
SegmentFor(seg, ps) ==
  IF IsWildcard(seg) /\ slice1(seg) \in DOMAIN ps
  THEN IF IsMulti(seg) /\ ps[slice1(seg)].t = "array"
       THEN join(ps[slice1(seg)].v, << "/" >>)
       ELSE toString(ps[slice1(seg)])
  ELSE seg

KeysName == << "k", "e", "y", "s" >>
ConfigOfAB ==
  buildParameterizedTopic(DevicesConfigKeys,
                          Own(EmptyObject, KeysName, Array(<< << "a" >>, << "b" >> >>)))
ConfigOfNone ==
  buildParameterizedTopic(DevicesConfigKeys, Own(EmptyObject, KeysName, Array(<< >>)))

\* C11, as claimed: buildParameterizedTopic(params) is the pattern's segments
\* joined by '/', each wildcard segment whose name is a key of params replaced
\* by the value (a sequence under '#' joined with '/'), every other segment
\* unchanged; so for the documented pattern with keys = [a, b] and keys = [].
C11_SegmentsReplaced ==
  /\ op = "buildParameterizedTopic" =>
       topic = join([i \in 1..Len(Segments(src)) |->
                       SegmentFor(Segments(src)[i], params)], << "/" >>)
  /\ ConfigOfAB = SubSeq(DevicesConfigKeys, 1, 25) \o << "a", "/", "b" >>
  /\ ConfigOfNone = SubSeq(DevicesConfigKeys, 1, 25)

\* C12: match gives null for a topic it does not match, the whole topic with
\* its captures for one it does, and no exception for any topic;
\* getParameters of null is the empty mapping.
C12_NoMatchIsNull ==
  /\ Matched =>
       /\ pc = "ready" /\ error = ""
       /\ result # null => (result[1] = topic /\ Len(result) = _regex.groups + 1)
  /\ (op = "getParameters" /\ result = null) => extracted = EmptyObject

\* The parameters of no match, for a pattern with a named wildcard.
C12_Witness ==
  /\ op = "getParameters"
  /\ result = null
  /\ Names(src) # {}
  /\ extracted = EmptyObject

\* The capture of wildcard segment i in the result of a match.
CaptureOf(pattern, res, i) ==
  res[1 + Cardinality({j \in 1..i : IsWildcard(Segments(pattern)[j])})]

\* The value a capture stands for: under a single wildcard the text without
\* its closing '/', under a multi wildcard the list of its segments.
ValueOf(seg, capture) ==
  IF IsMulti(seg)
  THEN Array(IF Len(getLastItem(split(capture))) = 0
             THEN removeLastItem(split(capture)) ELSE split(capture))
  ELSE String(IF Len(capture) > 0 /\ capture[Len(capture)] = "/"
              THEN SubSeq(capture, 1, Len(capture) - 1) ELSE capture)

\* Two wildcard segments carry the same non-empty name.
SharedName(pattern) ==
  \E i, j \in 1..Len(Segments(pattern)) :
    /\ i < j
    /\ IsNamed(Segments(pattern)[i]) /\ IsNamed(Segments(pattern)[j])
    /\ slice1(Segments(pattern)[i]) = slice1(Segments(pattern)[j])

\* C13, as claimed: a pattern in which two wildcard segments share a name
\* compiles, and after a match getParameters holds for that name the value
\* captured by the last segment that carries it.
C13_LastWriteWins ==
  /\ (pc # "new" /\ SharedName(src) /\ ~MultiBeforeLast(src)) => pc = "ready"
  /\ (op = "getParameters" /\ result # null /\ SharedName(src)) =>
       \A j \in 1..Len(Segments(src)) :
         (IsNamed(Segments(src)[j]) /\ ~NamedAgain(src, j)) =>
           /\ slice1(Segments(src)[j]) \in DOMAIN extracted
           /\ extracted[slice1(Segments(src)[j])] =
                ValueOf(Segments(src)[j], CaptureOf(src, result, j))

\* C14: once a Pattern is constructed no call changes its pattern, topic,
\* expression, parameter function or parameter count, and a match repeated
\* for the same topic after other calls gives the same result.
C14_ReadOnly ==
  /\ [][pc = "ready" =>
         UNCHANGED <<_pattern, _topic, _regex, _fnParams, _paramCount>>]_vars
  /\ [][op' = "rematch" => result' = result]_vars
  /\ [](pc = "ready" =>
          /\ _pattern = src
          /\ _topic = getTopicOf(src)
          /\ _paramCount = buildParameterCount(tokenize(src).value)
          /\ _regex.lastIndex = 0)

\* A successful match of a topic built from parameters, repeated after
\* getParameters.
C14_Witness ==
  /\ op = "rematch"
  /\ built
  /\ result # null
  /\ Names(src) # {}


\* C18: in the newer Bus, removePattern(label) on a registered label removes
\* its pattern (the label is afterwards unknown) and returns the Bus; it
\* throws 'unknown label' only when the label is not registered.
C18_RemovePatternRemoves ==
  [][call'.name = "removePattern" =>
       /\ Has(_patterns, call'.label) =>
            call'.state = "returned" /\ ~Has(_patterns', call'.label)
       /\ call'.state = "thrown" => ~Has(_patterns, call'.label)]_vars

\* The topic is an element of the list of subscribed topics.
Subscribed(tpc) ==
  \E i \in 1..Len(_subscriptionTopics) : _subscriptionTopics[i] = tpc

\* C17: subscribe rejects with 'already subscribed to topic', without calling
\* the client's subscribe, whenever the pattern's subscribable topic is
\* already an element of the list of subscribed topics.
C17_SubscribedTopicRejected ==
  [][/\ call'.name = "subscribe"
     /\ isAvailable
     /\ Has(_patterns, call'.label)
     /\ Subscribed(getTopic(MapGet(_patterns, call'.label)))
     => /\ call'.state = "rejected"
        /\ call'.error = "already subscribed to topic"
        /\ call'.client = << >>]_vars

\* The last call was publish(label, params, payload) on an available Bus for
\* a label it has a pattern for.
Published ==
  /\ call.name = "publish"
  /\ isAvailable
  /\ Has(PublicationLabels, call.label)

\* The message of the older and of the newer version for a wrong count.
WrongCountMessage ==
  Prefix("publish") \o "wrong parameter count, got "
    \o Digits[KeyCount(call.params) + 1] \o ", expected "
    \o Digits[getParameterCount(MapGet(PublicationLabels, call.label)) + 1]

\* C16: publish rejects with a 'wrong parameter count' error and never calls
\* the client's publish when the number of keys of params differs from the
\* pattern's getParameterCount(); the client's publish is called only when the
\* two counts are equal.
C16_WrongCountRejected ==
  call.name = "publish" =>
    /\ call.client # << >> =>
         /\ Published
         /\ KeyCount(call.params)
              = getParameterCount(MapGet(PublicationLabels, call.label))
    /\ (/\ Published
        /\ KeyCount(call.params)
             # getParameterCount(MapGet(PublicationLabels, call.label)))
       => /\ call.state = "rejected"
          /\ call.error = WrongCountMessage
          /\ call.client = << >>

\* publish for a pattern with a named wildcard and a params object without
\* keys, and for a pattern without one and a params object with a key.
C16_Witness ==
  /\ Published
  /\ call.state = "rejected"
  /\ \/ KeyCount(call.params) = 0
        /\ getParameterCount(MapGet(PublicationLabels, call.label)) = 1
     \/ KeyCount(call.params) = 1
        /\ getParameterCount(MapGet(PublicationLabels, call.label)) = 0

\* The positions in the label map of the patterns that match the topic of
\* the message.
Matching ==
  {i \in 1..Len(MessageLabels) :
     match(MessageLabels[i].pattern, packet.topic) # null}

\* The first of them.
FirstMatching == CHOOSE i \in Matching : \A j \in Matching : i <= j

\* C15: for each incoming message the Bus tests its patterns in the insertion
\* order of the label map and emits the packet on exactly the first label
\* whose pattern matches, with packet.params set from that pattern; no later
\* matching label receives the message, and a message that matches no pattern
\* emits nothing.
C15_FirstMatchWins ==
  packet # NoPacket =>
    IF Matching = {} THEN emitted = << >>
    ELSE /\ Len(emitted) = 1
         /\ emitted[1].label = MessageLabels[FirstMatching].label
         /\ emitted[1].params =
              getParameters(MessageLabels[FirstMatching].pattern,
                            match(MessageLabels[FirstMatching].pattern,
                                  packet.topic))

\* A message that the patterns of two labels match, the second with a
\* parameter.
C15_Witness ==
  /\ packet # NoPacket
  /\ Cardinality(Matching) = 2
  /\ getParameterCount(MessageLabels[2].pattern) = 1
  /\ Len(emitted) = 1

\* The label has a pattern in the registry.
Registered(registry, label) ==
  \E i \in 1..Len(registry) : registry[i].label = label

\* The registry a call registers its label in.
RegistryOf(name) ==
  IF name = "setPattern" THEN _patterns
  ELSE IF name = "addPattern" THEN _publicationLabels
  ELSE _subscriptionLabels

\* The call that is made registers a label: setPattern, addPattern or the
\* older subscribe.
Registering ==
  \/ call'.name \in {"setPattern", "addPattern"}
  \/ call'.name = "subscribe" /\ version = "older"

\* The pattern has a grammar error.
GrammarError(pattern) == Pattern(pattern).throw

C19_ResetSettles ==
  version = "older" =>
    /\ (call.name = "reset" /\ call.state # "rejected") => call.state = "resolved"
    /\ call.name = "end callback" => call.state \in {"resolved", "rejected"}

\* A topic formed by the first n segments of a pattern alone: one segment per
\* pattern segment, a raw segment as written and a single wildcard replaced
\* by a non-empty text without '/', '#' or '+'.
FormedBy(str, pattern, n) ==
  LET segs == Segments(pattern)
      xs == split(str)
  IN  /\ Len(xs) = n
      /\ \A i \in 1..n :
           /\ ~IsMulti(segs[i])
           /\ IF IsSingle(segs[i]) THEN SegmentText(xs[i]) ELSE xs[i] = segs[i]

\* The pattern ends in a named multi wildcard that follows at least one
\* segment, and the topic is formed by the preceding segments, with or
\* without a trailing '/'.
BeforeTrailingMulti(pattern, str) ==
  LET segs == Segments(pattern)
      n == Len(segs)
  IN  /\ n > 1
      /\ IsMulti(segs[n]) /\ IsNamed(segs[n])
      /\ \/ FormedBy(str, pattern, n - 1)
         \/ /\ Len(str) > 0
            /\ str[Len(str)] = "/"
            /\ FormedBy(SubSeq(str, 1, Len(str) - 1), pattern, n - 1)

\* C22, as claimed: for a pattern whose last segment is a named multi wildcard,
\* the topic formed by the preceding segments alone matches with and without a
\* trailing '/', and getParameters gives the wildcard's name the empty list.
C22_TrailingMultiMatchesEmpty ==
  (Matched /\ BeforeTrailingMulti(src, topic)) =>
    /\ result # null
    /\ op = "getParameters" =>
         LET name == slice1(Segments(src)[Len(Segments(src))])
         IN  name \in DOMAIN extracted /\ extracted[name] = Array(<< >>)

\* C22 for every name but '__proto__'.
C22_ExceptProto ==
  (Matched /\ BeforeTrailingMulti(src, topic) /\ ProtoName \notin Names(src)) =>
    /\ result # null
    /\ op = "getParameters" =>
         LET name == slice1(Segments(src)[Len(Segments(src))])
         IN  name \in DOMAIN extracted /\ extracted[name] = Array(<< >>)

\* No two wildcard segments of the pattern carry the same name.
DistinctNames(pattern) ==
  \A i \in 1..Len(Segments(pattern)) : ~NamedAgain(pattern, i) \/ ~IsNamed(Segments(pattern)[i])

\* The assignments of the restricted round trip: the pattern has no unnamed
\* wildcard and pairwise distinct names, every single wildcard has a non-empty
\* string without '/', '#' and '+', every multi wildcard a sequence of such.
Restricted(pattern, ps) ==
  /\ NoUnnamedWildcard(pattern)
  /\ DistinctNames(pattern)
  /\ TypeCorrect(pattern, ps)
  /\ SegmentTexts(ps)

\* C24, as claimed: for every restricted pattern and assignment the built
\* topic matches the pattern, and getParameters of the match deep-equals the
\* assignment.
C24_RestrictedRoundTrip ==
  (built /\ Matched /\ Restricted(_pattern, params)) =>
    /\ result # null
    /\ op = "getParameters" => DeepEquals(extracted, params)

\* C24 for every name but '__proto__'.
C24_ExceptProto ==
  (built /\ Matched /\ Restricted(_pattern, params) /\ ProtoName \notin Names(_pattern)) =>
    /\ result # null
    /\ op = "getParameters" => DeepEquals(extracted, params)

\* A concrete topic: none of its '/'-separated segments begins with '+' or '#'.
Concrete(str) ==
  \A i \in 1..Len(split(str)) :
    Len(split(str)[i]) > 0 => split(str)[i][1] \notin {"+", "#"}

\* C26, as claimed: every topic that publish hands to the client's publish is
\* a concrete topic, for every registered pattern and every params object that
\* passes the parameter-count check.
C26_PublishedTopicConcrete ==
  (call.name = "publish" /\ call.client # << >>) => Concrete(call.client[1].topic)

\* The step is a report of the client, to the listeners of _addEventListeners,
\* of reconnect, offline, close or error.
ReportsLoss ==
  /\ _client.listening
  /\ call' = NoCall
  /\ \E event \in {"reconnect", "offline", "close", "error"} :
       /\ _status' = StatusOn(event)
       /\ _client' = ClientOn(_client, event)

\* C23, as claimed: in the newer Bus getStatus() returns Status.CONNECTED from
\* the moment connect() resolves until the client next reports reconnect,
\* offline, close or error.
C23_ConnectedFromResolve ==
  [][version = "newer" =>
       /\ (call'.name = "onConnect" /\ call'.state = "resolved")
            => _status' = Status.CONNECTED
       /\ (_status = Status.CONNECTED /\ ~ReportsLoss)
            => _status' = Status.CONNECTED]_vars

\* The second half of C23 alone: once CONNECTED, the status of the newer Bus
\* changes only when the client reports reconnect, offline, close or error.
C23_ConnectedUntilLoss ==
  [][(version = "newer" /\ _status = Status.CONNECTED /\ ~ReportsLoss)
       => _status' = Status.CONNECTED]_vars

\* A step of connect(): with a client object in place it rejects with msg,
\* hands nothing to mqtt and keeps the client; without one it stays pending on
\* a new client. A step of onError leaves the Bus without a client.
ConnectGuardsClient(msg) ==
  /\ call'.name = "connect" =>
       IF ~_client.isNull
       THEN /\ call'.state = "rejected"
            /\ call'.error = msg
            /\ call'.client = << >>
            /\ _client' = _client
       ELSE /\ call'.state = "pending"
            /\ call'.client = << [method |-> "connect", topic |-> << >>] >>
            /\ _client' = NewClient
  /\ call'.name = "onError" => (call'.state = "rejected" /\ _client'.isNull)

Without(items, k) == SubSeq(items, 1, k - 1) \o SubSeq(items, k + 1, Len(items))

\* The step completes the unsubscribe of request i: its callback is called
\* without an error.
Unsubscribed(i) ==
  /\ requests[i].method = "unsubscribe"
  /\ requests' = Answered(i)
  /\ call'.name = "unsubscribe callback"
  /\ call'.state = "resolved"

\* C25, as claimed: under every interleaving of subscribe and unsubscribe
\* calls and their callbacks, two unsubscribe calls for one label in flight
\* included, a completed unsubscribe(label) removes from the list of
\* subscribed topics at most one entry, and only one equal to the topic of the
\* label's pattern; entries of other topics are never removed.
C25_UnsubscribeRemovesOwnTopic ==
  [][(call'.name = "unsubscribe callback" /\ call'.state = "resolved") =>
       \E i \in 1..Len(requests) :
         /\ Unsubscribed(i)
         /\ \/ _subscriptionTopics' = _subscriptionTopics
            \/ \E k \in 1..Len(_subscriptionTopics) :
                 /\ _subscriptionTopics[k] = getTopic(requests[i].pattern)
                 /\ _subscriptionTopics' = Without(_subscriptionTopics, k)]_vars

====
